---- MODULE Spec2Model ----
(***************************************************************************)
(* A model of jcdump's demo library: the ZIP reader (Reader, unzip, open)  *)
(* of src/demo/src/lib/zip.ts and, further down, the WASI bridge and the   *)
(* decode driver (wasip1, getInstance, parse).                             *)
(*                                                                         *)
(* Archives are sequences of bytes 0..255.  Positions are 0-based as in    *)
(* the source; ByteAt converts to the 1-based sequence index.              *)
(***************************************************************************)
EXTENDS Integers, Sequences, FiniteSets, TLC

VARIABLES
  fixture,    \* the entries and the trailer variation the archive was built from
  buf,        \* unzip: buf, the bytes behind Reader.#view
  pos,        \* Reader.#pos of the one reader unzip creates
  span,       \* <<lo, hi>>: envelope of the byte offsets the reader has accessed
  zst,        \* unzip: "init" before the call, then "ok" or "failed"
  zerr,       \* the error unzip threw ("" when none)
  records,    \* unzip: records, the catalog (name -> captured cde)
  lastOpen,   \* outcome of the latest open() call
  firstOpen,  \* name -> outcome of the first open() of that name
  opened,     \* history: names opened so far with the error each open ended in
  readerCall, \* history: the latest call of a Reader method made on its own
  \* -- the module bridge and the decode driver --
  memory,        \* the instance's linear memory: address -> byte
  memorySet,     \* wasip1: memory is defined (ctrl.initialize has run)
  bound,         \* wasip1: stdin, stdout, stderr: the invocation whose closures are bound (0: "Not set")
  input,         \* parse: input, per invocation (the bytes not yet handed to the module)
  output,        \* parse: output, per invocation (the chunks pushed by stdout)
  diag,          \* parse: what stderr passed to console.error, per invocation
  ipc,           \* parse: where each invocation stands
  ierr,          \* parse: the error an invocation was rejected with
  result,        \* parse: the text an invocation's result was parsed from
  running,       \* the invocation whose entry point is on the stack (0: none)
  ncalls,        \* host calls made by the running entry point
  hostCalls,     \* history: host calls made so far, by every run
  wr,            \* an fd_write call followed consumer call by consumer call
  mod,           \* the module-level promise mod: "undefined", "pending", "resolved", "rejected"
  cache,         \* the module-level promise cache, likewise
  cacheValue,    \* the instance cache resolved to (0: none)
  loading,       \* bodies of getInstance's async function waiting for mod
  instantiating, \* bodies waiting for WebAssembly.instantiate
  compiles,      \* history: calls of WebAssembly.compileStreaming
  instantiations,\* history: calls of WebAssembly.instantiate
  instanceOf,    \* history: the instance each invocation got from getInstance (0: none yet)
  lastCall,      \* history: the latest host call of the run, its result and the state before it
  delivered,     \* history: bytes fd_read placed in memory during each invocation's run
  wrote,         \* history: bytes the module passed to fd_write on descriptor 1, per run
  doneBefore,    \* history: the invocations that had ended when each invocation started
  exitCode,      \* history: what the entry point returned to each invocation (-1: not yet)
  stream         \* the stream each invocation was given by open(), when it came from a jar

zipVars == <<fixture, buf, pos, span, zst, zerr, records, lastOpen, firstOpen, opened,
            readerCall>>

bridgeVars == <<memory, memorySet, bound, input, output, diag, running, ncalls,
               hostCalls, wr,
                lastCall, delivered, wrote>>

decodeVars == <<ipc, ierr, result, mod, cache, cacheValue, loading, instantiating,
                compiles, instantiations, instanceOf, doneBefore, exitCode, stream>>

vars == <<zipVars, bridgeVars, decodeVars>>

----------------------------------------------------------------------------
(* Bounds of the model. *)

MaxEntries == 3
MaxInv == 2         \* decode invocations
MaxCalls == 3       \* host calls per run of the entry point
MaxHostCalls == 4   \* host calls per behaviour
MemSize == 32       \* bytes of linear memory
MaxLen == 6         \* bytes of a buffer read with a Reader on its own
MaxOffers == 8      \* consumer calls counted within one fd_write

----------------------------------------------------------------------------
(* Format constants of the source. *)

EocdSig == 101010256        \* 0x06054b50
CentralSig == 33639248      \* 0x02014b50
LocalSig == 67324752        \* 0x04034b50
EocdBack == 22              \* reader.seek(-22)
U4Bytes == 4                \* Uint32Array.BYTES_PER_ELEMENT
U2Bytes == 2                \* Uint16Array.BYTES_PER_ELEMENT
MethodStore == 0
MethodDeflate == 8

Min(a, b) == IF a < b THEN a ELSE b
Max(a, b) == IF a > b THEN a ELSE b

----------------------------------------------------------------------------
(* Reader.  A cursor value c = [pos, err, lo, hi] threads Reader.#pos, the *)
(* pending exception ("" when none) and the envelope of raw accesses       *)
(* through a call chain; an operation on a cursor that already carries an  *)
(* exception does nothing, as the exception has unwound the JavaScript     *)
(* caller.                                                                 *)

ByteAt(b, p) == b[p + 1]

\* DataView.getUintN(p, littleEndian = true) for n bytes.
RECURSIVE LittleEndian(_, _, _)
LittleEndian(b, p, n) ==
  IF n = 0 THEN 0 ELSE ByteAt(b, p) + 256 * LittleEndian(b, p + 1, n - 1)

\* The platform's own check of a view access: a RangeError outside the buffer.
RawAccess(b, c, n) ==
  IF n < 0 \/ c.pos < 0 \/ c.pos + n > Len(b)
  THEN [c EXCEPT !.err = "RangeError",
                 !.lo = Min(c.lo, c.pos), !.hi = Max(c.hi, c.pos + n)]
  ELSE [c EXCEPT !.pos = c.pos + n,
                 !.lo = Min(c.lo, c.pos), !.hi = Max(c.hi, c.pos + n)]

Cursor(p, sp) == [pos |-> p, err |-> "", lo |-> sp[1], hi |-> sp[2]]

\* A seek that would not test the upper end.
SeekNoUpperCheck(b, c, p) ==
  IF c.err # "" THEN c
  ELSE LET q == IF p < 0 THEN Len(b) + p ELSE p
       IN IF q < 0 THEN [c EXCEPT !.err = "seek"] ELSE [c EXCEPT !.pos = q]

Seek(b, c, p) ==
  IF c.err # "" THEN c
  ELSE LET q == IF p < 0 THEN Len(b) + p ELSE p
       IN IF q < 0 THEN [c EXCEPT !.err = "seek"]
          ELSE IF q > Len(b) THEN [c EXCEPT !.err = "seek"]
          ELSE [c EXCEPT !.pos = q]

\* Mutant of ReadU4: the bounds check is missing.
ReadU4Unchecked(b, c) ==
  IF c.err # "" THEN [c |-> c, v |-> 0]
  ELSE [c |-> RawAccess(b, c, U4Bytes),
        v |-> IF c.pos + U4Bytes <= Len(b) THEN LittleEndian(b, c.pos, U4Bytes) ELSE 0]

ReadU4(b, c) ==
  IF c.err # "" THEN [c |-> c, v |-> 0]
  ELSE IF c.pos + U4Bytes > Len(b) THEN [c |-> [c EXCEPT !.err = "read"], v |-> 0]
  ELSE LET d == RawAccess(b, c, U4Bytes)
       IN [c |-> d, v |-> IF d.err = "" THEN LittleEndian(b, c.pos, U4Bytes) ELSE 0]

ReadU2(b, c) ==
  IF c.err # "" THEN [c |-> c, v |-> 0]
  ELSE IF c.pos + U2Bytes > Len(b) THEN [c |-> [c EXCEPT !.err = "read"], v |-> 0]
  ELSE LET d == RawAccess(b, c, U2Bytes)
       IN [c |-> d, v |-> IF d.err = "" THEN LittleEndian(b, c.pos, U2Bytes) ELSE 0]

ReadBytes(b, c, len) ==
  IF c.err # "" THEN [c |-> c, v |-> <<>>]
  ELSE IF c.pos + len > Len(b) THEN [c |-> [c EXCEPT !.err = "read"], v |-> <<>>]
  ELSE LET d == RawAccess(b, c, len)
       IN [c |-> d, v |-> IF d.err = "" THEN SubSeq(b, c.pos + 1, c.pos + len) ELSE <<>>]

\* TextDecoder.decode: an ASCII byte is its code point; a byte that cannot
\* start or continue a sequence here decodes to U+FFFD.  The archives of this
\* model hold no well-formed multi-byte sequence.
Utf8Replacement == 65533
DecodeByte(x) == IF x < 128 THEN x ELSE Utf8Replacement
Utf8Decode(bytes) == [i \in 1..Len(bytes) |-> DecodeByte(bytes[i])]

ReadString(b, c, len) ==
  LET r == ReadBytes(b, c, len) IN [c |-> r.c, v |-> Utf8Decode(r.v)]

\* A run of consecutive readU4()/readU2() calls, ws giving each field's width;
\* acc = [c, vs] is the cursor and the values read so far.
ReadField(b, c, w) == IF w = U4Bytes THEN ReadU4(b, c) ELSE ReadU2(b, c)

Collect(r, vs) == [c |-> r.c, vs |-> Append(vs, r.v)]

RECURSIVE ReadFields(_, _, _)
ReadFields(b, acc, ws) ==
  IF ws = <<>> \/ acc.c.err # "" THEN acc
  ELSE ReadFields(b, Collect(ReadField(b, acc.c, Head(ws)), acc.vs), Tail(ws))

Fields(c) == [c |-> c, vs |-> <<>>]

----------------------------------------------------------------------------
(* The three record parsers.  Each is split where the source sequences its  *)
(* reads: the signature, the fixed fields, the variable-length fields.     *)

\* Fields after the signature, in the order the source reads them.
EocdWidths == <<2, 2, 2, 2, 4, 4, 2>>
CentralWidths == <<2, 2, 2, 2, 2, 2, 4, 4, 4, 2, 2, 2, 2, 2, 4, 4>>
LocalWidths == <<2, 2, 2, 2, 2, 4, 4, 4, 2, 2>>

Throw(c, e) == IF c.err # "" THEN c ELSE [c EXCEPT !.err = e]

NoEocd == [totalNumberOfEntriesInTheCentralDirectoryOnThisDisk |-> 0,
           sizeOfTheCentralDirectory |-> 0,
           offsetOfStartOfCentralDirectory |-> 0]

\* f: the seven fields after the signature.
EocdRecord(f) ==
  IF f.c.err # "" THEN [c |-> f.c, v |-> NoEocd]
  ELSE IF f.vs[7] # 0 THEN [c |-> Throw(f.c, "NotImplemented"), v |-> NoEocd]
  ELSE [c |-> f.c,
        v |-> [totalNumberOfEntriesInTheCentralDirectoryOnThisDisk |-> f.vs[3],
               sizeOfTheCentralDirectory |-> f.vs[5],
               offsetOfStartOfCentralDirectory |-> f.vs[6]]]

\* s: the signature just read.
EocdAfterSignature(b, s) ==
  IF s.c.err # "" THEN [c |-> s.c, v |-> NoEocd]
  ELSE IF s.v # EocdSig THEN [c |-> Throw(s.c, "NotImplemented"), v |-> NoEocd]
  ELSE EocdRecord(ReadFields(b, Fields(s.c), EocdWidths))

readEndOfCentralDirectoryRecord(b, c) == EocdAfterSignature(b, ReadU4(b, c))

\* Of the directory record only the fields open() uses are kept.
NoCde == [fileName |-> <<>>, compressionMethod |-> 0, compressedSize |-> 0,
          relativeOffsetOfLocalHeader |-> 0]

\* Mutant of CentralRecordOf: the compression method is validated while the
\* directory is parsed.
CentralRecordOfChecked(vs, fileName, fileComment) ==
  IF fileComment.c.err # "" THEN [c |-> fileComment.c, v |-> NoCde]
  ELSE IF vs[4] \notin {MethodStore, MethodDeflate}
    THEN [c |-> Throw(fileComment.c, "NotSupported"), v |-> NoCde]
  ELSE [c |-> fileComment.c,
        v |-> [fileName |-> fileName,
               compressionMethod |-> vs[4],
               compressedSize |-> vs[8],
               relativeOffsetOfLocalHeader |-> vs[16]]]

CentralRecordOf(vs, fileName, fileComment) ==
  IF fileComment.c.err # "" THEN [c |-> fileComment.c, v |-> NoCde]
  ELSE [c |-> fileComment.c,
        v |-> [fileName |-> fileName,
               compressionMethod |-> vs[4],
               compressedSize |-> vs[8],
               relativeOffsetOfLocalHeader |-> vs[16]]]

CentralAfterExtra(b, vs, fileName, extraField) ==
  CentralRecordOf(vs, fileName, ReadBytes(b, extraField.c, vs[12]))

CentralAfterName(b, vs, fileName) ==
  CentralAfterExtra(b, vs, fileName.v, ReadBytes(b, fileName.c, vs[11]))

CentralAfterFields(b, f) ==
  IF f.c.err # "" THEN [c |-> f.c, v |-> NoCde]
  ELSE CentralAfterName(b, f.vs, ReadString(b, f.c, f.vs[10]))

CentralAfterSignature(b, s) ==
  IF s.c.err # "" THEN [c |-> s.c, v |-> NoCde]
  ELSE IF s.v # CentralSig THEN [c |-> Throw(s.c, "SignatureMismatch"), v |-> NoCde]
  ELSE CentralAfterFields(b, ReadFields(b, Fields(s.c), CentralWidths))

readCentralDirectoryEntry(b, c) == CentralAfterSignature(b, ReadU4(b, c))

\* Mutant of LocalAfterName: the local extra field is not skipped.
LocalAfterNameNoExtra(b, vs, fileName) == fileName.c

\* The local header parsers return the cursor only: open() discards the record.
LocalAfterName(b, vs, fileName) == ReadBytes(b, fileName.c, vs[10]).c

LocalAfterFields(b, f) ==
  IF f.c.err # "" THEN f.c
  ELSE LocalAfterName(b, f.vs, ReadString(b, f.c, f.vs[9]))

LocalAfterSignature(b, s) ==
  IF s.c.err # "" THEN s.c
  ELSE IF s.v # LocalSig THEN Throw(s.c, "SignatureMismatch")
  ELSE LocalAfterFields(b, ReadFields(b, Fields(s.c), LocalWidths))

readLocalFileHeader(b, c) == LocalAfterSignature(b, ReadU4(b, c))

----------------------------------------------------------------------------
(* unzip: the trailer, then the directory loop; records[cde.fileName] = ... *)
(* overwrites an earlier entry of the same name.                           *)

\* Mutant of Put: the first occurrence of a name is kept.
PutFirstWins(recs, cde) ==
  [n \in (DOMAIN recs) \cup {cde.fileName} |->
     IF n \in DOMAIN recs THEN recs[n] ELSE cde]

Put(recs, cde) ==
  [n \in (DOMAIN recs) \cup {cde.fileName} |->
     IF n = cde.fileName THEN cde ELSE recs[n]]

EmptyRecords == [n \in {} |-> NoCde]

\* for (let i = 0; i < n; i++) { cde = readCentralDirectoryEntry(reader); records[...] = ... }
RECURSIVE ReadDirectory(_, _, _, _, _)
RECURSIVE DirectoryStep(_, _, _, _, _)
DirectoryStep(b, r, i, n, recs) ==
  IF r.c.err # "" THEN [c |-> r.c, recs |-> recs]
  ELSE ReadDirectory(b, r.c, i + 1, n, Put(recs, r.v))

ReadDirectory(b, c, i, n, recs) ==
  IF c.err # "" \/ i >= n THEN [c |-> c, recs |-> recs]
  ELSE DirectoryStep(b, readCentralDirectoryEntry(b, c), i, n, recs)

UnzipDirectory(b, eocd) ==
  ReadDirectory(b, Seek(b, eocd.c, eocd.v.offsetOfStartOfCentralDirectory), 0,
                eocd.v.totalNumberOfEntriesInTheCentralDirectoryOnThisDisk,
                EmptyRecords)

Unzip(b) ==
  UnzipDirectory(b, readEndOfCentralDirectoryRecord(b,
                      Seek(b, Cursor(0, <<Len(b), 0>>), 0 - EocdBack)))

----------------------------------------------------------------------------
(* open(): the closure of one catalog entry, run on the shared reader.     *)

\* Raw deflate (RFC 1951) restricted to a single final stored block:
\* 0x01, LEN, NLEN = ~LEN, then LEN literal bytes.
StoredBlockHeader == 4 + 1
Deflate(data) ==
  <<1, Len(data) % 256, Len(data) \div 256,
    255 - (Len(data) % 256), 255 - (Len(data) \div 256)>> \o data

InflateOk(bytes) ==
  /\ Len(bytes) >= StoredBlockHeader
  /\ bytes[1] = 1
  /\ bytes[4] = 255 - bytes[2]
  /\ bytes[5] = 255 - bytes[3]
  /\ Len(bytes) = StoredBlockHeader + bytes[2] + 256 * bytes[3]

\* What the stream of a deflated entry yields when read to the end.
Inflate(bytes) ==
  IF InflateOk(bytes)
  THEN [ok |-> TRUE, bytes |-> SubSeq(bytes, StoredBlockHeader + 1, Len(bytes))]
  ELSE [ok |-> FALSE, bytes |-> <<>>]

\* switch (cde.compressionMethod) on the bytes just sliced.  The outcome of
\* open(): the cursor it leaves, the raw bytes, and what the stream yields.
OpenDispatch(cde, bytes) ==
  IF bytes.c.err # ""
    THEN [c |-> bytes.c, raw |-> <<>>, yields |-> <<>>, streamOk |-> FALSE]
  ELSE IF cde.compressionMethod = MethodStore
    THEN [c |-> bytes.c, raw |-> bytes.v, yields |-> bytes.v, streamOk |-> TRUE]
  ELSE IF cde.compressionMethod = MethodDeflate
    THEN [c |-> bytes.c, raw |-> bytes.v, yields |-> Inflate(bytes.v).bytes,
          streamOk |-> Inflate(bytes.v).ok]
  ELSE [c |-> Throw(bytes.c, "NotSupported"), raw |-> bytes.v, yields |-> <<>>,
        streamOk |-> FALSE]

\* Mutant of OpenEntry: the reader is not repositioned first.
OpenEntryNoSeek(b, p, sp, cde) ==
  OpenDispatch(cde,
    ReadBytes(b, readLocalFileHeader(b, Cursor(p, sp)), cde.compressedSize))

OpenEntry(b, p, sp, cde) ==
  OpenDispatch(cde,
    ReadBytes(b,
      readLocalFileHeader(b, Seek(b, Cursor(p, sp), cde.relativeOffsetOfLocalHeader)),
      cde.compressedSize))

----------------------------------------------------------------------------
(* Input archives.  An archive is built from a directory listing (a name   *)
(* and a compression method per entry; entry i carries i payload bytes of  *)
(* its own), a layout variant (0: no extra fields; 1: a local extra field, *)
(* a directory extra field and a directory comment, of different lengths)  *)
(* and one defect of the trailer or of the body.                           *)

NameA == <<97, 46, 99, 108, 97, 115, 115>>     \* "a.class"
NameB == <<98>>                                 \* "b"
Names == {NameA, NameB}
Methods == {MethodStore, MethodDeflate, 99}
Defects == {"none", "size", "sizePlus", "offset", "offsetTail", "count", "front", "csize"}

LE2(v) == <<v % 256, (v \div 256) % 256>>
LE4(v) == <<v % 256, (v \div 256) % 256, (v \div 65536) % 256, (v \div 16777216) % 256>>

EntryData(i) == [k \in 1..i |-> 10 * i + k]
Payload(e, i) == IF e.method = MethodDeflate THEN Deflate(EntryData(i)) ELSE EntryData(i)

LocalExtra(variant) == IF variant = 1 THEN <<7, 7>> ELSE <<>>
CentralExtra(variant) == IF variant = 1 THEN <<9>> ELSE <<>>
CentralComment(variant) == IF variant = 1 THEN <<5, 5, 5>> ELSE <<>>

LocalRecord(e, i, variant) ==
  LE4(LocalSig) \o LE2(20) \o LE2(0) \o LE2(e.method) \o LE2(0) \o LE2(0)
  \o LE4(0) \o LE4(Len(Payload(e, i))) \o LE4(i)
  \o LE2(Len(e.name)) \o LE2(Len(LocalExtra(variant)))
  \o e.name \o LocalExtra(variant) \o Payload(e, i)

RECURSIVE LocalSection(_, _, _)
LocalSection(dir, n, variant) ==
  IF n = 0 THEN <<>>
  ELSE LocalSection(dir, n - 1, variant) \o LocalRecord(dir[n], n, variant)

LocalOffset(dir, i, variant) == Len(LocalSection(dir, i - 1, variant))

\* The compressed size the directory declares for entry i.
DeclaredSize(fx, i) ==
  Len(Payload(fx.dir[i], i))
  + (IF fx.defect = "csize" /\ i = Len(fx.dir) THEN 1000 ELSE 0)

CentralRecord(fx, i) ==
  LET e == fx.dir[i]
  IN LE4(CentralSig) \o LE2(20) \o LE2(20) \o LE2(0) \o LE2(e.method) \o LE2(0) \o LE2(0)
     \o LE4(0) \o LE4(DeclaredSize(fx, i)) \o LE4(i)
     \o LE2(Len(e.name)) \o LE2(Len(CentralExtra(fx.variant)))
     \o LE2(Len(CentralComment(fx.variant)))
     \o LE2(0) \o LE2(0) \o LE4(0) \o LE4(LocalOffset(fx.dir, i, fx.variant))
     \o e.name \o CentralExtra(fx.variant) \o CentralComment(fx.variant)

RECURSIVE CentralSection(_, _)
CentralSection(fx, n) ==
  IF n = 0 THEN <<>> ELSE CentralSection(fx, n - 1) \o CentralRecord(fx, n)

Trailer(fx, count, size, offset) ==
  LE4(EocdSig) \o LE2(0) \o LE2(0) \o LE2(count) \o LE2(count)
  \o LE4(size) \o LE4(offset) \o LE2(0)

Build(fx) ==
  LET n == Len(fx.dir)
      locals == LocalSection(fx.dir, n, fx.variant)
      central == CentralSection(fx, n)
      total == Len(locals) + Len(central) + EocdBack
      count == IF fx.defect = "count" THEN n + 1 ELSE n
      size == IF fx.defect = "size" THEN 2147483647
              ELSE IF fx.defect = "sizePlus" THEN Len(central) + EocdBack + 1
              ELSE Len(central)
      offset == IF fx.defect = "offset" THEN total + 1
                ELSE IF fx.defect = "offsetTail" THEN total - 2
                ELSE Len(locals)
      whole == locals \o central \o Trailer(fx, count, size, offset)
      cut == IF fx.defect = "front" /\ n > 0 THEN LocalOffset(fx.dir, 2, fx.variant) ELSE 0
  IN SubSeq(whole, cut + 1, Len(whole))

Dirs == UNION {[1..n -> [name : Names, method : Methods]] : n \in 0..MaxEntries}
Fixtures == [dir : Dirs, variant : {0, 1}, defect : Defects]

----------------------------------------------------------------------------
(* The module bridge: wasip1().  A session value s threads the linear       *)
(* memory, the closures' variables of every invocation, the number of      *)
(* times each bound callback was invoked, the running total (nread,        *)
(* written), the value returned to the module and the pending exception    *)
(* through one host call.                                                  *)

Invs == 1..MaxInv
Addrs == 0..(MemSize - 1)

NoCalls == [stdin |-> 0, stdout |-> 0, stderr |-> 0]

NewSession(mem, inp, out, dg) ==
  [mem |-> mem, input |-> inp, output |-> out, diag |-> dg,
   calls |-> NoCalls, acc |-> 0, n |-> 0, ret |-> -1, err |-> "", sinkOk |-> TRUE]

\* The same with a log sink (console.error) that throws when it is called.
SinkFailing(s) == [s EXCEPT !.sinkOk = FALSE]

Raise(s, e) == IF s.err # "" THEN s ELSE [s EXCEPT !.err = e]

\* What DataView and Uint8Array accept without a RangeError.
InMemory(p, n) == p >= 0 /\ n >= 0 /\ p + n <= MemSize

GetUint32(mem, p) ==
  mem[p] + 256 * mem[p + 1] + 65536 * mem[p + 2] + 16777216 * mem[p + 3]

SetUint32(mem, p, v) ==
  [a \in Addrs |-> IF a >= p /\ a < p + 4 THEN LE4(v)[a - p + 1] ELSE mem[a]]

MemBytes(mem, p, n) == [k \in 1..n |-> mem[p + k - 1]]

\* A provider that would copy the bytes and keep them for the next call.
ParseStdinNoAdvance(s, j, p, len) ==
  [s EXCEPT
     !.mem = [a \in Addrs |->
                IF a >= p /\ a < p + Min(len, Len(s.input[j]))
                THEN s.input[j][a - p + 1] ELSE s.mem[a]],
     !.n = Min(len, Len(s.input[j])),
     !.calls.stdin = @ + 1]

\* parse's stdin closure of invocation j, called on the view (p, len).
ParseStdin(s, j, p, len) ==
  [s EXCEPT
     !.mem = [a \in Addrs |->
                IF a >= p /\ a < p + Min(len, Len(s.input[j]))
                THEN s.input[j][a - p + 1] ELSE s.mem[a]],
     !.input[j] = SubSeq(s.input[j], Min(len, Len(s.input[j])) + 1, Len(s.input[j])),
     !.n = Min(len, Len(s.input[j])),
     !.calls.stdin = @ + 1]

\* parse's stdout closure of invocation j: the chunk is copied and pushed.
ParseStdout(s, j, bytes) ==
  [s EXCEPT !.output[j] = Append(@, bytes), !.n = Len(bytes), !.calls.stdout = @ + 1]

\* parse's stderr closure of invocation j: the chunk goes to console.error.
ParseStderr(s, j, bytes) ==
  IF s.sinkOk
  THEN [s EXCEPT !.diag[j] = Append(@, Utf8Decode(bytes)), !.n = Len(bytes),
                 !.calls.stderr = @ + 1]
  ELSE Raise([s EXCEPT !.calls.stderr = @ + 1], "LogSinkFault")

\* The callbacks as bound: "Not set" until the first setup.
Stdin(s, bnd, p, len) ==
  IF bnd.stdin = 0 THEN Raise(s, "Not set: stdin") ELSE ParseStdin(s, bnd.stdin, p, len)

Writer(s, bnd, w, bytes) ==
  IF w = "stdout"
  THEN IF bnd.stdout = 0 THEN Raise(s, "Not set: stdout")
       ELSE ParseStdout(s, bnd.stdout, bytes)
  ELSE IF bnd.stderr = 0 THEN Raise(s, "Not set: stderr")
       ELSE ParseStderr(s, bnd.stderr, bytes)

\* fd_read: const b = new Uint8Array(memory.buffer, buf, len); nread += stdin(b)
ReadInto(s, bnd, p, len) ==
  IF ~InMemory(p, len) THEN Raise(s, "RangeError") ELSE Stdin(s, bnd, p, len)

AddRead(s) == IF s.err # "" THEN s ELSE [s EXCEPT !.acc = s.acc + s.n]

\* The loop as it would run without the break: every vector is serviced.
RECURSIVE ReadVectorsFrom(_, _, _, _, _)
ReadVectorsFrom(s, bnd, iovsptr, i, iovslen) ==
  IF s.err # "" \/ i >= iovslen THEN s
  ELSE IF ~InMemory(iovsptr + i * 8, 8) THEN Raise(s, "RangeError")
  ELSE ReadVectorsFrom(AddRead(ReadInto(s, bnd, GetUint32(s.mem, iovsptr + i * 8),
                                        GetUint32(s.mem, iovsptr + i * 8 + 4))),
                       bnd, iovsptr, i + 1, iovslen)

ReadEveryVector(s, bnd, iovsptr, iovslen) == ReadVectorsFrom(s, bnd, iovsptr, 0, iovslen)

\* fd_read: the loop over the vectors, left at the break of its first round.
ReadFirstVector(s, bnd, iovsptr, iovslen) ==
  IF iovslen <= 0 THEN s
  ELSE IF ~InMemory(iovsptr, 8) THEN Raise(s, "RangeError")
  ELSE AddRead(ReadInto(s, bnd, GetUint32(s.mem, iovsptr), GetUint32(s.mem, iovsptr + 4)))

\* view.setUint32(ptr, total, true); return 0
StoreTotal(s, ptr) ==
  IF s.err # "" THEN s
  ELSE IF ~InMemory(ptr, 4) THEN Raise(s, "RangeError")
  ELSE [s EXCEPT !.mem = SetUint32(s.mem, ptr, s.acc), !.ret = 0]

Badf == 8

\* fd_read as it would be without the test of the descriptor.
FdReadAnyDescriptor(s, bnd, memSet, fd, iovsptr, iovslen, readptr) ==
  IF ~memSet THEN Raise(s, "Memory not set.")
  ELSE StoreTotal(ReadFirstVector(s, bnd, iovsptr, iovslen), readptr)

FdRead(s, bnd, memSet, fd, iovsptr, iovslen, readptr) ==
  IF ~memSet THEN Raise(s, "Memory not set.")
  ELSE IF fd # 0 THEN [s EXCEPT !.ret = Badf]
  ELSE StoreTotal(ReadFirstVector(s, bnd, iovsptr, iovslen), readptr)

\* fd_write: while (b.length > 0) { n = w(b); written += n; b = b.slice(n) }
RECURSIVE WriteLoop(_, _, _, _)
RECURSIVE WriteRest(_, _, _, _)
WriteRest(s, bnd, w, bytes) ==
  IF s.err # "" THEN s
  ELSE WriteLoop([s EXCEPT !.acc = s.acc + s.n], bnd, w,
                 SubSeq(bytes, s.n + 1, Len(bytes)))

WriteLoop(s, bnd, w, bytes) ==
  IF s.err # "" \/ bytes = <<>> THEN s
  ELSE WriteRest(Writer(s, bnd, w, bytes), bnd, w, bytes)

\* fd_write: the loop over the vectors.
RECURSIVE WriteVectors(_, _, _, _, _, _)
RECURSIVE WriteVector(_, _, _, _, _, _, _, _)
WriteVector(s, bnd, w, ciovsptr, i, ciovslen, p, len) ==
  IF ~InMemory(p, len) THEN Raise(s, "RangeError")
  ELSE WriteVectors(WriteLoop(s, bnd, w, MemBytes(s.mem, p, len)),
                    bnd, w, ciovsptr, i + 1, ciovslen)

WriteVectors(s, bnd, w, ciovsptr, i, ciovslen) ==
  IF s.err # "" \/ i >= ciovslen THEN s
  ELSE IF ~InMemory(ciovsptr + i * 8, 8) THEN Raise(s, "RangeError")
  ELSE WriteVector(s, bnd, w, ciovsptr, i, ciovslen,
                   GetUint32(s.mem, ciovsptr + i * 8),
                   GetUint32(s.mem, ciovsptr + i * 8 + 4))

FdWrite(s, bnd, memSet, fd, ciovsptr, ciovslen, writtenptr) ==
  IF ~memSet THEN Raise(s, "Memory not set.")
  ELSE IF fd = 1
    THEN StoreTotal(WriteVectors(s, bnd, "stdout", ciovsptr, 0, ciovslen), writtenptr)
  ELSE IF fd = 2
    THEN StoreTotal(WriteVectors(s, bnd, "stderr", ciovsptr, 0, ciovslen), writtenptr)
  ELSE [s EXCEPT !.ret = Badf]

\* A setup that would keep a provider bound earlier.
SetupKeepStdin(bnd, i) ==
  [stdin |-> IF bnd.stdin = 0 THEN i ELSE bnd.stdin, stdout |-> i, stderr |-> i]

\* A setup that would keep a consumer of descriptor 1 bound earlier.
SetupKeepStdout(bnd, i) ==
  [stdin |-> i, stdout |-> IF bnd.stdout = 0 THEN i ELSE bnd.stdout, stderr |-> i]

\* ctrl.setup(stdin, stdout, stderr) with the closures of invocation i.
Setup(bnd, i) == [stdin |-> i, stdout |-> i, stderr |-> i]

NotSet == [stdin |-> 0, stdout |-> 0, stderr |-> 0]

----------------------------------------------------------------------------
(* Linear memories.  The module keeps a table of two vectors at address 0, *)
(* a result word at 16 and its buffers from 20 on; what it keeps there is  *)
(* its own business, so the model draws the table from a set.              *)

TableAt == 0
ResultAt == TableAt + 2 * 8
DataAt == ResultAt + 4

\* A memory whose vector table holds (p0, l0) and (p1, l1); the buffers hold
\* the digits '1'..'9' in turn, so that neighbouring bytes differ.
Layout(p0, l0, p1, l1) ==
  [a \in Addrs |->
     IF a < 4 THEN LE4(p0)[a + 1]
     ELSE IF a < 8 THEN LE4(l0)[a - 3]
     ELSE IF a < 12 THEN LE4(p1)[a - 7]
     ELSE IF a < 16 THEN LE4(l1)[a - 11]
     ELSE IF a < DataAt THEN 0
     ELSE 49 + (a % 9)]

\* The memory a fresh instance starts with in the decode runs.
ModuleMemory == Layout(DataAt, 2, DataAt + 4, 2)

ZeroMemory == [a \in Addrs |-> 0]

\* The bytes of invocation i's entry: "12", "345", ... as ASCII digits.
InputOf(i) == [k \in 1..(i + 1) |-> 48 + ((i * (i + 1)) \div 2 + k - 1)]

----------------------------------------------------------------------------
(* Values of the parts of the state a specification leaves alone.          *)

\* No fd_write is being followed.
NoWrite == [pc |-> "off"]

\* No stream: the invocation was not started through a jar entry.
NoStream == [logical |-> <<>>, name |-> <<>>, err |-> "", yields |-> <<>>, ok |-> FALSE,
             open |-> FALSE]

NoCall == [fn |-> "", fd |-> 0, ptr |-> 0, len |-> 0, out |-> 0, inv |-> 0,
           ret |-> -1, err |-> "", calls |-> NoCalls, total |-> 0,
           before |-> [memory |-> ZeroMemory, input |-> <<>>, output |-> <<>>,
                       diag |-> <<>>]]

BridgeIdle ==
  /\ memory = ZeroMemory
  /\ memorySet = FALSE
  /\ bound = NotSet
  /\ input = [i \in Invs |-> <<>>]
  /\ output = [i \in Invs |-> <<>>]
  /\ diag = [i \in Invs |-> <<>>]
  /\ running = 0
  /\ ncalls = 0
  /\ hostCalls = 0
  /\ wr = NoWrite
  /\ lastCall = NoCall
  /\ delivered = [i \in Invs |-> <<>>]
  /\ wrote = [i \in Invs |-> <<>>]

DecodeIdle ==
  /\ ipc = [i \in Invs |-> "idle"]
  /\ ierr = [i \in Invs |-> ""]
  /\ result = [i \in Invs |-> <<>>]
  /\ mod = "undefined"
  /\ cache = "undefined"
  /\ cacheValue = 0
  /\ loading = 0
  /\ instantiating = 0
  /\ compiles = 0
  /\ instantiations = 0
  /\ instanceOf = [i \in Invs |-> 0]
  /\ doneBefore = [i \in Invs |-> {}]
  /\ exitCode = [i \in Invs |-> 0 - 1]
  /\ stream = [i \in Invs |-> NoStream]

NoReaderCall == [op |-> "", arg |-> 0, before |-> 0, err |-> "", v |-> <<>>,
                 lo |-> 0, hi |-> 0]

NoFixture == [dir |-> <<>>, variant |-> 0, defect |-> "none"]

ZipIdle ==
  /\ fixture = NoFixture
  /\ buf = <<>>
  /\ pos = 0
  /\ span = <<0, 0>>
  /\ zst = "init"
  /\ zerr = ""
  /\ records = [n \in {} |-> 0]
  /\ lastOpen = [called |-> FALSE]
  /\ firstOpen = <<>>
  /\ opened = {}
  /\ readerCall = NoReaderCall

----------------------------------------------------------------------------
(* The state machine of the ZIP reader. *)

NoOpen == [name |-> <<>>, err |-> "", raw |-> <<>>, yields |-> <<>>,
           streamOk |-> FALSE, pos |-> 0, called |-> FALSE, after |-> {}]

Init ==
  /\ fixture \in Fixtures
  /\ buf = Build(fixture)
  /\ pos = 0
  /\ span = <<Len(buf), 0>>
  /\ zst = "init"
  /\ zerr = ""
  /\ records = EmptyRecords
  /\ lastOpen = NoOpen
  /\ firstOpen = [n \in {} |-> NoOpen]
  /\ opened = {}
  /\ readerCall = NoReaderCall
  /\ BridgeIdle
  /\ DecodeIdle

\* unzip(content), after content.arrayBuffer() has resolved; r is what the
\* parse produced.
UnzipReturns(r) ==
  /\ pos' = r.c.pos
  /\ span' = <<r.c.lo, r.c.hi>>
  /\ zerr' = r.c.err
  /\ zst' = IF r.c.err = "" THEN "ok" ELSE "failed"
  /\ records' = IF r.c.err = "" THEN r.recs ELSE EmptyRecords
  /\ UNCHANGED <<fixture, buf, lastOpen, firstOpen, opened, readerCall, bridgeVars,
                 decodeVars>>

UnzipCall ==
  /\ zst = "init"
  /\ UnzipReturns(Unzip(buf))

\* after: the open() calls that had returned or thrown before this one.
OpenOutcome(n, r) ==
  [name |-> n, err |-> r.c.err, raw |-> r.raw, yields |-> r.yields,
   streamOk |-> r.streamOk, pos |-> r.c.pos, called |-> TRUE, after |-> opened]

OpenEffects(n, r, o) ==
  /\ pos' = r.c.pos
  /\ span' = <<r.c.lo, r.c.hi>>
  /\ lastOpen' = o
  /\ firstOpen' = IF n \in DOMAIN firstOpen THEN firstOpen
                  ELSE [m \in (DOMAIN firstOpen) \cup {n} |->
                          IF m = n THEN o ELSE firstOpen[m]]
  /\ opened' = opened \cup {<<n, r.c.err>>}
  /\ UNCHANGED <<fixture, buf, zst, zerr, records, readerCall>>

OpenReturns(n, r, o) ==
  /\ OpenEffects(n, r, o)
  /\ UNCHANGED <<bridgeVars, decodeVars>>

\* records[n].open()
Open(n) ==
  /\ zst = "ok"
  /\ n \in DOMAIN records
  /\ \E r \in {OpenEntry(buf, pos, span, records[n])} : OpenReturns(n, r, OpenOutcome(n, r))

Next ==
  \/ UnzipCall
  \/ \E n \in DOMAIN records : Open(n)

Spec == Init /\ [][Next]_vars

----------------------------------------------------------------------------
(* What the fixture says the archive holds. *)

DirNames(dir) == {Utf8Decode(dir[i].name) : i \in 1..Len(dir)}

\* The last directory position carrying the (decoded) name n.
LastIndex(dir, n) ==
  CHOOSE i \in 1..Len(dir) :
    /\ Utf8Decode(dir[i].name) = n
    /\ \A j \in (i + 1)..Len(dir) : Utf8Decode(dir[j].name) # n

\* The trailer's declarations, decoded from the last 22 bytes of the buffer.
DeclaredCount(b) == LittleEndian(b, Len(b) - 14, 2)
DeclaredDirSize(b) == LittleEndian(b, Len(b) - 10, 4)
DeclaredOffset(b) == LittleEndian(b, Len(b) - 6, 4)

\* spec.md section 7: signature mismatch, invalid seek, read past buffer end.
MalformedArchive == {"seek", "read", "SignatureMismatch"}

\* The outcome of an open() as its caller sees it.
Seen(o) == <<o.err, o.raw, o.yields, o.streamOk>>

----------------------------------------------------------------------------
(* C1: with several directory entries of one name, the catalog maps the    *)
(* name to the last of them in directory order: its local-header offset,   *)
(* its compressed size and its method; opening the name slices the last    *)
(* occurrence's payload and leaves the reader at that payload's end.       *)
C1_LastOccurrenceWins ==
  zst = "ok" =>
    /\ DOMAIN records = DirNames(fixture.dir)
    /\ \A n \in DOMAIN records :
         \E i \in {LastIndex(fixture.dir, n)} :
           /\ records[n].fileName = n
           /\ records[n].relativeOffsetOfLocalHeader
                = LocalOffset(fixture.dir, i, fixture.variant)
           /\ records[n].compressedSize = DeclaredSize(fixture, i)
           /\ records[n].compressionMethod = fixture.dir[i].method
    /\ (lastOpen.called /\ lastOpen.err \in {"", "NotSupported"}) =>
         \E i \in {LastIndex(fixture.dir, lastOpen.name)} :
           /\ lastOpen.raw = Payload(fixture.dir[i], i)
           /\ lastOpen.pos = LocalOffset(fixture.dir, i + 1, fixture.variant)

\* a, b, a in the directory: "a" opened, and the third entry's bytes came out.
C1_Witness ==
  /\ zst = "ok"
  /\ Len(fixture.dir) = 3
  /\ fixture.dir[1].name = fixture.dir[3].name
  /\ fixture.dir[2].name # fixture.dir[1].name
  /\ lastOpen.called
  /\ lastOpen.name = Utf8Decode(fixture.dir[1].name)
  /\ lastOpen.err = ""
  /\ lastOpen.raw = Payload(fixture.dir[3], 3)

(* C2: a compression method other than 0 and 8 never makes unzip fail; the *)
(* failure comes when that entry is opened, and whatever opens preceded,   *)
(* failed ones included, an entry of method 0 or 8 opens and yields its    *)
(* own bytes.                                                              *)
C2_UnsupportedFailsAtOpenOnly ==
  fixture.defect = "none" =>
    /\ zst # "failed"
    /\ lastOpen.called =>
         \E i \in {LastIndex(fixture.dir, lastOpen.name)} :
           IF fixture.dir[i].method \in {MethodStore, MethodDeflate}
           THEN /\ lastOpen.err = ""
                /\ lastOpen.streamOk
                /\ lastOpen.yields = EntryData(i)
           ELSE lastOpen.err = "NotSupported"

\* A supported entry opened after the open of an unsupported one had failed.
C2_Witness ==
  /\ fixture.defect = "none"
  /\ lastOpen.called
  /\ lastOpen.err = ""
  /\ lastOpen.yields = EntryData(LastIndex(fixture.dir, lastOpen.name))
  /\ \E h \in lastOpen.after : h[1] # lastOpen.name /\ h[2] = "NotSupported"

(* C3 as stated: whenever the trailer's declared size, start offset or     *)
(* entry count does not fit in the buffer, unzip fails with a              *)
(* MalformedArchive error, returns no catalog and reads inside the buffer. *)
DeclaredOffsetOutside(b) == DeclaredOffset(b) > Len(b)
DeclaredCountTooLarge(b) ==
  /\ DeclaredOffset(b) <= Len(b)
  /\ 46 * DeclaredCount(b) > Len(b) - DeclaredOffset(b)
DeclaredSizeTooLarge(b) ==
  /\ DeclaredOffset(b) <= Len(b)
  /\ DeclaredDirSize(b) > Len(b) - DeclaredOffset(b)

UnzipRejected ==
  /\ zst = "failed"
  /\ zerr \in MalformedArchive
  /\ records = EmptyRecords

ReadsInside == span[2] <= Len(buf) /\ (span[1] >= 0) /\ zerr # "RangeError"

C3_AsStated ==
  (zst # "init" /\ Len(buf) >= EocdBack
     /\ (DeclaredOffsetOutside(buf) \/ DeclaredCountTooLarge(buf) \/ DeclaredSizeTooLarge(buf)))
  => (UnzipRejected /\ ReadsInside)

(* C3 amended: whenever the declared start offset lies beyond the buffer   *)
(* or the declared count of entries, 46 bytes each at least, does not fit  *)
(* between that offset and the buffer's end, unzip fails with a            *)
(* MalformedArchive error and returns no catalog; whatever the trailer     *)
(* declares, no byte outside the buffer is read.                           *)
C3_OffsetOrCountRejected ==
  /\ ReadsInside
  /\ (zst # "init" /\ Len(buf) >= EocdBack
        /\ (DeclaredOffsetOutside(buf) \/ DeclaredCountTooLarge(buf)))
     => UnzipRejected

\* A start offset inside the trailer: the first entry's signature read is cut
\* by the buffer's end.
C3_Witness ==
  /\ zst = "failed"
  /\ DeclaredCountTooLarge(buf)
  /\ zerr = "read"
  /\ pos = Len(buf) - 2

(* C4: an open() that gets past the header slices exactly compressedSize   *)
(* bytes starting at local-header offset + 30 + the local header's name    *)
(* length + its extra length; for method 0 these are what the stream       *)
(* yields, and are the entry's original bytes; for method 8 they are what  *)
(* is fed to the inflate filter.                                           *)
PayloadStart(b, off) ==
  off + 30 + LittleEndian(b, off + 26, 2) + LittleEndian(b, off + 28, 2)

C4_SlicesAfterLocalHeader ==
  (lastOpen.called /\ lastOpen.err \in {"", "NotSupported"}) =>
    \E cde \in {records[lastOpen.name]} :
      \E start \in {PayloadStart(buf, cde.relativeOffsetOfLocalHeader)} :
        /\ lastOpen.raw = SubSeq(buf, start + 1, start + cde.compressedSize)
        /\ Len(lastOpen.raw) = cde.compressedSize
        /\ cde.compressionMethod = MethodStore =>
             /\ lastOpen.yields = lastOpen.raw
             /\ fixture.defect = "none" =>
                  lastOpen.yields = EntryData(LastIndex(fixture.dir, lastOpen.name))
        /\ cde.compressionMethod = MethodDeflate =>
             /\ lastOpen.yields = Inflate(lastOpen.raw).bytes
             /\ fixture.defect = "none" =>
                  lastOpen.raw = Deflate(EntryData(LastIndex(fixture.dir, lastOpen.name)))

\* A stored entry behind a local header that carries an extra field.
C4_Witness ==
  /\ lastOpen.called
  /\ lastOpen.err = ""
  /\ fixture.variant = 1
  /\ fixture.defect = "none"
  /\ records[lastOpen.name].compressionMethod = MethodStore
  /\ Len(lastOpen.yields) = 3
  /\ lastOpen.yields = EntryData(3)

\* Positions the shared reader is left at: the buffer's two ends, the end of
\* the directory, and where each open so far stopped.
LeftAt ==
  {0, Len(buf) - EocdBack, Len(buf)} \cup {firstOpen[m].pos : m \in DOMAIN firstOpen}

(* C5: what an open() of an entry returns or throws does not depend on the *)
(* open() calls before it, failed ones included: it equals the first open  *)
(* of that entry and what open() gives from any position the shared reader *)
(* was left at; and the archive's bytes stay as built.                     *)
C5_OpenIdempotent ==
  /\ buf = Build(fixture)
  /\ lastOpen.called =>
       /\ Seen(lastOpen) = Seen(firstOpen[lastOpen.name])
       /\ \A p \in LeftAt :
            Seen(OpenOutcome(lastOpen.name,
                             OpenEntry(buf, p, span, records[lastOpen.name])))
              = Seen(lastOpen)

\* A second open of an entry, after another entry's open failed part-way
\* (past its local header, at the payload read).
C5_Witness ==
  /\ lastOpen.called
  /\ lastOpen.err = ""
  /\ Len(lastOpen.yields) > 0
  /\ <<lastOpen.name, "">> \in lastOpen.after
  /\ \E h \in lastOpen.after : h[1] # lastOpen.name /\ h[2] = "read"

----------------------------------------------------------------------------
(* The decode driver: getInstance() and parse().  JavaScript runs each     *)
(* piece of code between two awaits to completion, so one action is one    *)
(* such piece; while the module's entry point is on the stack (running #   *)
(* 0) only the host calls it makes and its return can happen.              *)

\* A getInstance that would not look at the cache.
CacheMissAlways(c) == TRUE

\* A getInstance that would forget a failed load.
CacheMissOrRejected(c) == c \in {"undefined", "rejected"}

\* cache ??= ... and mod ??= ... evaluate their right side only when this holds.
CacheMiss(c) == c = "undefined"
ModMiss(m) == m = "undefined"

\* getInstance() up to its await: the first call starts the async function,
\* which starts the compilation and waits for it.
GetInstanceCall ==
  IF CacheMiss(cache)
  THEN /\ cache' = "pending"
       /\ loading' = loading + 1
       /\ IF ModMiss(mod)
          THEN mod' = "pending" /\ compiles' = compiles + 1
          ELSE UNCHANGED <<mod, compiles>>
  ELSE UNCHANGED <<cache, loading, mod, compiles>>

\* WebAssembly.compileStreaming(fetch(wasm)) settles.
CompileDone(ok) ==
  /\ running = 0
  /\ mod = "pending"
  /\ mod' = IF ok THEN "resolved" ELSE "rejected"
  /\ UNCHANGED <<zipVars, bridgeVars, ipc, ierr, result, cache, cacheValue, loading,
                 instantiating, compiles, instantiations, instanceOf, doneBefore, exitCode, stream>>

\* The async function resumes after await mod: wasip1() and
\* WebAssembly.instantiate(m, ...), or the rejection passed on to cache.
LoaderResumes ==
  /\ running = 0
  /\ loading > 0
  /\ mod \in {"resolved", "rejected"}
  /\ loading' = loading - 1
  /\ IF mod = "resolved"
     THEN /\ instantiating' = instantiating + 1
          /\ instantiations' = instantiations + 1
          /\ bound' = NotSet
          /\ memorySet' = FALSE
          /\ UNCHANGED cache
     ELSE /\ cache' = "rejected"
          /\ UNCHANGED <<instantiating, instantiations, bound, memorySet>>
  /\ UNCHANGED <<zipVars, wr, memory, input, output, diag, running, ncalls, hostCalls, lastCall,
                 delivered, wrote, ipc, ierr, result, mod, cacheValue, compiles,
                 instanceOf, doneBefore, exitCode, stream>>

InstantiateOutcomes == {"ok", "failed", "badExports"}

\* WebAssembly.instantiate settles; the exports are checked; ctrl.initialize(memory).
InstantiateDone(o) ==
  /\ running = 0
  /\ instantiating > 0
  /\ instantiating' = instantiating - 1
  /\ IF o = "ok"
     THEN /\ memory' = ModuleMemory
          /\ memorySet' = TRUE
          /\ cache' = "resolved"
          /\ cacheValue' = instantiations
     ELSE /\ cache' = "rejected"
          /\ UNCHANGED <<memory, memorySet, cacheValue>>
  /\ UNCHANGED <<zipVars, wr, bound, input, output, diag, running, ncalls, hostCalls, lastCall,
                 delivered, wrote, ipc, ierr, result, mod, loading, compiles,
                 instantiations, instanceOf, doneBefore, exitCode, stream>>

Ended(i) == ipc[i] \in {"done", "failed"}

\* handleClicked: entry.parse() -> parse(entry.open()), up to its first await.
Start(i) ==
  /\ running = 0
  /\ ipc[i] = "idle"
  /\ ipc' = [ipc EXCEPT ![i] = "bytes"]
  /\ doneBefore' = [doneBefore EXCEPT ![i] = {j \in Invs : Ended(j)}]
  /\ UNCHANGED <<zipVars, bridgeVars, ierr, result, mod, cache, cacheValue, loading,
                 instantiating, compiles, instantiations, instanceOf, exitCode, stream>>

\* await new Response(data).bytes() resolves: input and output are set up and
\* getInstance() is called.
BytesArrive(i, bytes) ==
  /\ running = 0
  /\ ipc[i] = "bytes"
  /\ input' = [input EXCEPT ![i] = bytes]
  /\ output' = [output EXCEPT ![i] = <<>>]
  /\ GetInstanceCall
  /\ ipc' = [ipc EXCEPT ![i] = "instance"]
  /\ UNCHANGED <<zipVars, wr, memory, memorySet, bound, diag, running, ncalls, hostCalls, lastCall,
                 delivered, wrote, ierr, result, cacheValue, instantiating,
                 instantiations, instanceOf, doneBefore, exitCode, stream>>

\* parse(data) on a stream that yields the bytes of invocation i.
BytesResolved(i) ==
  /\ ~stream[i].open
  /\ BytesArrive(i, InputOf(i))

\* ... or the entry's stream fails.
BytesFail(i) ==
  /\ running = 0
  /\ ipc[i] = "bytes"
  /\ ipc' = [ipc EXCEPT ![i] = "failed"]
  /\ ierr' = [ierr EXCEPT ![i] = "StreamError"]
  /\ UNCHANGED <<zipVars, bridgeVars, result, mod, cache, cacheValue, loading,
                 instantiating, compiles, instantiations, instanceOf, doneBefore, exitCode, stream>>

BytesFailed(i) ==
  /\ ~stream[i].open
  /\ BytesFail(i)

\* await getInstance() resolves: the closures are made and bound, and the entry
\* point is called.
InstanceReady(i) ==
  /\ running = 0
  /\ ipc[i] = "instance"
  /\ cache = "resolved"
  /\ bound' = Setup(bound, i)
  /\ running' = i
  /\ ncalls' = 0
  /\ UNCHANGED hostCalls
  /\ ipc' = [ipc EXCEPT ![i] = "running"]
  /\ instanceOf' = [instanceOf EXCEPT ![i] = cacheValue]
  /\ lastCall' = NoCall
  /\ UNCHANGED <<zipVars, wr, memory, memorySet, input, output, diag, delivered,
                 wrote, ierr, result, mod, cache, cacheValue, loading, instantiating,
                 compiles, instantiations, doneBefore, exitCode, stream>>

\* await getInstance() rejects.
InstanceRejected(i) ==
  /\ running = 0
  /\ ipc[i] = "instance"
  /\ cache = "rejected"
  /\ ipc' = [ipc EXCEPT ![i] = "failed"]
  /\ ierr' = [ierr EXCEPT ![i] = "LoadError"]
  /\ UNCHANGED <<zipVars, bridgeVars, result, mod, cache, cacheValue, loading,
                 instantiating, compiles, instantiations, instanceOf, doneBefore, exitCode, stream>>

\* The bytes the provider of invocation j handed over in a call.
Taken(j, before, after) ==
  IF j = 0 THEN <<>> ELSE SubSeq(before[j], 1, Len(before[j]) - Len(after[j]))

\* The bytes the vectors of a table describe, in order.
RECURSIVE Gather(_, _, _)
Gather(mem, ptr, n) ==
  IF n = 0 THEN <<>>
  ELSE Gather(mem, ptr, n - 1)
       \o MemBytes(mem, GetUint32(mem, ptr + (n - 1) * 8),
                   GetUint32(mem, ptr + (n - 1) * 8 + 4))

\* A host call returns r to the module, or throws through it into parse().
HostReturns(fn, fd, ptr, len, out, r) ==
  /\ memory' = r.mem
  /\ input' = r.input
  /\ output' = r.output
  /\ diag' = r.diag
  /\ ncalls' = ncalls + 1
  /\ hostCalls' = hostCalls + 1
  /\ lastCall' = [fn |-> fn, fd |-> fd, ptr |-> ptr, len |-> len, out |-> out,
                  inv |-> running, ret |-> r.ret, err |-> r.err, calls |-> r.calls,
                  total |-> r.acc,
                  before |-> [memory |-> memory, input |-> input,
                              output |-> output, diag |-> diag]]
  /\ delivered' = [delivered EXCEPT ![running] = @ \o Taken(bound.stdin, input, r.input)]
  /\ wrote' = [wrote EXCEPT ![running] =
                 IF fn = "fd_write" /\ fd = 1 /\ r.err = ""
                 THEN @ \o Gather(memory, ptr, len) ELSE @]
  /\ IF r.err # ""
     THEN /\ running' = 0
          /\ ipc' = [ipc EXCEPT ![running] = "failed"]
          /\ ierr' = [ierr EXCEPT ![running] = r.err]
     ELSE UNCHANGED <<running, ipc, ierr>>
  /\ UNCHANGED <<zipVars, wr, memorySet, bound, result, mod, cache, cacheValue, loading,
                 instantiating, compiles, instantiations, instanceOf, doneBefore, exitCode, stream>>

\* The module calls fd_read(fd, iovsptr, iovslen, readptr).
HostRead(fd, ptr, len, out) ==
  /\ running # 0
  /\ ncalls < MaxCalls
  /\ hostCalls < MaxHostCalls
  /\ \E r \in {FdRead(NewSession(memory, input, output, diag), bound, memorySet,
                      fd, ptr, len, out)} :
       HostReturns("fd_read", fd, ptr, len, out, r)

\* The module calls fd_write(fd, ciovsptr, ciovslen, writtenptr).
HostWrite(fd, ptr, len, out) ==
  /\ running # 0
  /\ ncalls < MaxCalls
  /\ hostCalls < MaxHostCalls
  /\ \E r \in {FdWrite(NewSession(memory, input, output, diag), bound, memorySet,
                       fd, ptr, len, out)} :
       HostReturns("fd_write", fd, ptr, len, out, r)

\* The module calls fd_write on descriptor 2 while console.error throws.
HostWriteSinkFails(ptr, len, out) ==
  /\ running # 0
  /\ ncalls < MaxCalls
  /\ hostCalls < MaxHostCalls
  /\ \E r \in {FdWrite(SinkFailing(NewSession(memory, input, output, diag)), bound,
                       memorySet, 2, ptr, len, out)} :
       HostReturns("fd_write", 2, ptr, len, out, r)

\* const n = parse(); if (n !== 0) throw new Error()
\* A test that would let every status pass.
FaultNever(n) == FALSE

\* if (n !== 0)
Fault(n) == n # 0

EntryReturns(n) ==
  /\ running # 0
  /\ running' = 0
  /\ exitCode' = [exitCode EXCEPT ![running] = n]
  /\ ipc' = [ipc EXCEPT ![running] = IF Fault(n) THEN "failed" ELSE "text"]
  /\ ierr' = [ierr EXCEPT ![running] = IF Fault(n) THEN "ModuleFault" ELSE @]
  /\ lastCall' = NoCall
  /\ UNCHANGED <<zipVars, wr, memory, memorySet, bound, input, output, diag, ncalls,
                 hostCalls, delivered, wrote, result, mod, cache, cacheValue, loading,
                 instantiating, compiles, instantiations, instanceOf, doneBefore, stream>>

RECURSIVE Flatten(_)
Flatten(chunks) == IF chunks = <<>> THEN <<>> ELSE Head(chunks) \o Flatten(Tail(chunks))

\* JSON.parse, for the documents of this model: a run of the digits 1..9 is
\* a number; the empty text is a SyntaxError.
JsonOk(text) == text # <<>> /\ \A k \in 1..Len(text) : text[k] \in 49..57

\* The value JSON.parse returns for such a document: the number written.
JsonParse(text) == [type |-> "number", digits |-> [k \in 1..Len(text) |-> text[k] - 48]]

\* await new Blob(output).text() resolves; JSON.parse.
TextParsed(i, text) ==
  /\ ipc' = [ipc EXCEPT ![i] = IF JsonOk(text) THEN "done" ELSE "failed"]
  /\ ierr' = [ierr EXCEPT ![i] = IF JsonOk(text) THEN @ ELSE "DecodeFault"]
  /\ result' = [result EXCEPT ![i] = IF JsonOk(text) THEN JsonParse(text) ELSE @]
  /\ UNCHANGED <<zipVars, bridgeVars, mod, cache, cacheValue, loading, instantiating,
                 compiles, instantiations, instanceOf, doneBefore, exitCode, stream>>

TextResolved(i) ==
  /\ running = 0
  /\ ipc[i] = "text"
  /\ TextParsed(i, Utf8Decode(Flatten(output[i])))

\* The host calls of the module in the decode runs: it reads into its first
\* buffer and writes that buffer to either output.
DecodeInit == ZipIdle /\ BridgeIdle /\ DecodeIdle

DecodeNext ==
  \/ \E i \in Invs : Start(i)
  \/ \E i \in Invs : BytesResolved(i)
  \/ \E i \in Invs : BytesFailed(i)
  \/ \E ok \in BOOLEAN : CompileDone(ok)
  \/ LoaderResumes
  \/ \E o \in InstantiateOutcomes : InstantiateDone(o)
  \/ \E i \in Invs : InstanceReady(i)
  \/ \E i \in Invs : InstanceRejected(i)
  \/ HostRead(0, TableAt, 1, ResultAt)
  \/ \E fd \in {1, 2} : HostWrite(fd, TableAt, 1, ResultAt)
  \/ HostWriteSinkFails(TableAt, 1, ResultAt)
  \/ \E n \in {0, 1} : EntryReturns(n)
  \/ \E i \in Invs : TextResolved(i)

DecodeSpec == DecodeInit /\ [][DecodeNext]_vars

----------------------------------------------------------------------------
(* One run of the entry point seen from the bridge: the instance is loaded, *)
(* invocation 1 is bound and running, and the module makes host calls with  *)
(* whatever table, descriptor and pointers it likes.                        *)

\* Vector tables: apart, overlapping each other, an empty first vector, a
\* second vector over the result word, a first vector past the end of memory,
\* a first vector ending with memory.
BridgeMemories ==
  { Layout(DataAt, 2, DataAt + 4, 2),
    Layout(DataAt, 4, DataAt + 2, 3),
    Layout(DataAt, 0, DataAt + 4, 2),
    Layout(DataAt, 3, ResultAt, 4),
    Layout(MemSize - 2, 4, DataAt + 4, 2),
    Layout(MemSize - 4, 4, DataAt, 2) }

BridgeInputs == {<<>>, InputOf(1), InputOf(2)}

\* <<descriptor, table, vectors, result>>
BridgeCalls ==
  ({0, 1, 2, 3} \X {TableAt} \X {0, 1, 2} \X {ResultAt})
  \cup ({0, 1, 2, 3} \X {TableAt + 8} \X {1, 2} \X {ResultAt})
  \cup ({0, 1, 2, 3} \X {TableAt} \X {1} \X {MemSize - 2})

OnlyFirst(x, rest) == [i \in Invs |-> IF i = 1 THEN x ELSE rest]

BridgeInit ==
  /\ ZipIdle
  /\ memory \in BridgeMemories
  /\ memorySet = TRUE
  /\ bound = Setup(NotSet, 1)
  /\ input \in {OnlyFirst(x, <<>>) : x \in BridgeInputs}
  /\ output = [i \in Invs |-> <<>>]
  /\ diag = [i \in Invs |-> <<>>]
  /\ running = 1
  /\ ncalls = 0
  /\ hostCalls = 0
  /\ wr = NoWrite
  /\ lastCall = NoCall
  /\ delivered = [i \in Invs |-> <<>>]
  /\ wrote = [i \in Invs |-> <<>>]
  /\ ipc = OnlyFirst("running", "idle")
  /\ ierr = [i \in Invs |-> ""]
  /\ result = [i \in Invs |-> <<>>]
  /\ mod = "resolved"
  /\ cache = "resolved"
  /\ cacheValue = 1
  /\ loading = 0
  /\ instantiating = 0
  /\ compiles = 1
  /\ instantiations = 1
  /\ instanceOf = OnlyFirst(1, 0)
  /\ doneBefore = [i \in Invs |-> {}]
  /\ exitCode = [i \in Invs |-> 0 - 1]
  /\ stream = [i \in Invs |-> NoStream]

BridgeNext ==
  \/ \E c \in BridgeCalls : HostRead(c[1], c[2], c[3], c[4])
  \/ \E c \in BridgeCalls : HostWrite(c[1], c[2], c[3], c[4])
  \/ \E c \in BridgeCalls : HostWriteSinkFails(c[2], c[3], c[4])
  \/ \E n \in {0, 1} : EntryReturns(n)

BridgeSpec == BridgeInit /\ [][BridgeNext]_vars

\* What a call found and what it left.
Before == lastCall.before
FrameKept ==
  /\ memory = Before.memory
  /\ input = Before.input
  /\ output = Before.output
  /\ diag = Before.diag

BadDescriptor ==
  \/ lastCall.fn = "fd_read" /\ lastCall.fd # 0
  \/ lastCall.fn = "fd_write" /\ lastCall.fd \notin {1, 2}

\* C6: a sequential-read on a descriptor other than 0, and a sequential-write
\* on a descriptor other than 1 or 2, returns the bad-descriptor code, throws
\* nothing, calls neither the provider nor a consumer, and leaves linear
\* memory (the result word included), the remaining input, the collected
\* output and the diagnostics as it found them.
C6_BadDescriptorChangesNothing ==
  BadDescriptor =>
    /\ lastCall.ret = Badf
    /\ lastCall.err = ""
    /\ lastCall.calls = NoCalls
    /\ FrameKept

\* A write of two vectors to descriptor 0 after output was collected, and
\* with input still waiting.
C6_Witness ==
  /\ lastCall.fn = "fd_write"
  /\ lastCall.fd = 0
  /\ lastCall.len = 2
  /\ Before.output[1] # <<>>
  /\ Before.input[1] # <<>>
  /\ GetUint32(Before.memory, lastCall.out) # 0

FirstBuf == GetUint32(Before.memory, lastCall.ptr)
FirstLen == GetUint32(Before.memory, lastCall.ptr + 4)

Touched == {a \in Addrs : memory[a] # Before.memory[a]}

\* C7: a sequential-read on descriptor 0 that asks for more than one vector
\* calls the provider once, for the first vector: the bytes it changes lie in
\* the part of the first vector it filled or in the result word, so the
\* regions of later vectors are left as they were; the count it reports is
\* the number of bytes taken from the input and never more than the first
\* vector's declared length.
C7_OnlyFirstVectorFilled ==
  (lastCall.fn = "fd_read" /\ lastCall.fd = 0 /\ lastCall.len > 1) =>
    /\ lastCall.calls.stdin <= 1
    /\ lastCall.total <= FirstLen
    /\ \A a \in Touched :
         \/ a >= FirstBuf /\ a < FirstBuf + lastCall.total
         \/ lastCall.err = "" /\ a >= lastCall.out /\ a < lastCall.out + 4
    /\ lastCall.err = "" =>
         /\ lastCall.ret = 0
         /\ GetUint32(memory, lastCall.out) = lastCall.total
         /\ lastCall.total = Len(Before.input[1]) - Len(input[1])

\* Two vectors apart from each other, three bytes of input: the first vector
\* is filled, a byte of input remains, the second vector still holds "78".
C7_Witness ==
  /\ lastCall.fn = "fd_read" /\ lastCall.fd = 0 /\ lastCall.len = 2
  /\ lastCall.ptr = TableAt
  /\ lastCall.err = ""
  /\ Before.memory = Layout(DataAt, 2, DataAt + 4, 2)
  /\ Before.input[1] = InputOf(2)
  /\ lastCall.total = 2
  /\ input[1] # <<>>
  /\ MemBytes(memory, DataAt, 2) = SubSeq(InputOf(2), 1, 2)
  /\ MemBytes(memory, DataAt + 4, 2) = <<55, 56>>

----------------------------------------------------------------------------
(* Decode runs.                                                            *)

IsPrefix(a, b) == Len(a) <= Len(b) /\ a = SubSeq(b, 1, Len(a))

\* j had completed or failed when i was started, and both ran the entry
\* point of the same instance.
Sequential(j, i) ==
  /\ j \in doneBefore[i]
  /\ instanceOf[j] # 0
  /\ instanceOf[j] = instanceOf[i]

OwnBytesOnly(i) ==
  /\ IsPrefix(delivered[i], InputOf(i))
  /\ ipc[i] = "done" => result[i] = JsonParse(Utf8Decode(wrote[i]))

\* C8: of two decode invocations on the same instance, the second started
\* after the first had completed or failed, each sees only its own bytes:
\* what the reads of an invocation deliver is a prefix of that invocation's
\* input (never input the other left unread), and the result of an invocation
\* is the text of the bytes written to descriptor 1 while it ran.
C8_SequentialRunsSeeOwnBytes ==
  \A i, j \in Invs : Sequential(j, i) => OwnBytesOnly(i) /\ OwnBytesOnly(j)

\* Invocation 2 ran first, read "34" of "345" and left "5"; invocation 1 then
\* read "12" and wrote it back.
C8_Witness ==
  /\ Sequential(2, 1)
  /\ ipc[1] = "done" /\ ipc[2] = "done"
  /\ delivered[2] = SubSeq(InputOf(2), 1, 2)
  /\ input[2] = SubSeq(InputOf(2), 3, 3)
  /\ delivered[1] = InputOf(1)
  /\ result[1] = [type |-> "number", digits |-> <<1, 2>>]
  /\ result[2] = [type |-> "number", digits |-> <<3, 4>>]

\* A decode that was started and has neither completed nor failed.
InFlight(i) == ipc[i] \in {"bytes", "instance", "running", "text"}

\* C9: at most one decode is in flight at a time (there is one cached
\* instance, so every decode is against it).
C9_AsStated == Cardinality({i \in Invs : InFlight(i)}) <= 1

Reached(i) == ipc[i] \notin {"idle", "bytes"} \/ ierr[i] \notin {"", "StreamError"}

\* C10: in every interleaving of decode invocations the module is compiled at
\* most once and instantiated at most once, neither before a decode has been
\* requested (nor before one has got as far as getInstance), and every
\* invocation that runs the entry point runs it on that one instance.
C10_OneModuleOneInstance ==
  /\ compiles <= 1
  /\ instantiations <= 1
  /\ (\A i \in Invs : ipc[i] = "idle") => compiles = 0 /\ instantiations = 0
  /\ (\A i \in Invs : ~Reached(i)) => compiles = 0 /\ instantiations = 0
  /\ \A i \in Invs : instanceOf[i] # 0 => instanceOf[i] = 1 /\ cacheValue = 1

\* Two decodes, each started while the other was in flight, both completed on
\* the one instance.
C10_Witness ==
  /\ \A i \in Invs : ipc[i] = "done" /\ instanceOf[i] = 1
  /\ 1 \notin doneBefore[2] /\ 2 \notin doneBefore[1]
  /\ compiles = 1
  /\ instantiations = 1

----------------------------------------------------------------------------
(* The reader that open() uses.                                            *)

\* C11: a call of open() leaves the position of the reader that parsed the
\* directory, and that every open() uses, where it found it, whether the call
\* returns or throws.
C11_AsStated == [][(\E n \in DOMAIN records : Open(n)) => pos' = pos]_vars

----------------------------------------------------------------------------
(* A Reader on its own: any sequence of calls of its methods on a buffer.  *)
(* An exception leaves the object usable, so each call starts from the     *)
(* position the one before left.                                           *)

\* Buffers of every length up to MaxLen; the first bytes are not ASCII.
ReaderBuffers == {[k \in 1..n |-> 130 - k] : n \in 0..MaxLen}

SeekArgs == (0 - (MaxLen + 1))..(MaxLen + 1)
ReadArgs == (0 - 1)..(MaxLen + 1)

ReaderInit ==
  /\ fixture = NoFixture
  /\ buf \in ReaderBuffers
  /\ pos = 0
  /\ span = <<0, 0>>
  /\ zst = "init"
  /\ zerr = ""
  /\ records = EmptyRecords
  /\ lastOpen = NoOpen
  /\ firstOpen = [n \in {} |-> NoOpen]
  /\ opened = {}
  /\ readerCall = NoReaderCall
  /\ BridgeIdle
  /\ DecodeIdle

\* The call returned value v, or threw, and left the cursor c.
ReaderReturns(op, arg, c, v) ==
  /\ pos' = c.pos
  /\ span' = <<c.lo, c.hi>>
  /\ readerCall' = [op |-> op, arg |-> arg, before |-> pos, err |-> c.err, v |-> v,
                    lo |-> c.lo, hi |-> c.hi]
  /\ UNCHANGED <<fixture, buf, zst, zerr, records, lastOpen, firstOpen, opened,
                 bridgeVars, decodeVars>>

Fresh == Cursor(pos, <<Len(buf), 0>>)

ValueRead(op, arg, r) == ReaderReturns(op, arg, r.c, IF r.c.err = "" THEN <<r.v>> ELSE <<>>)

\* The reader is used directly, not by unzip.
Standalone == fixture = NoFixture

SeekCall(p) ==
  /\ Standalone
  /\ ReaderReturns("seek", p, Seek(buf, Fresh, p), <<>>)

ReadU4Call ==
  /\ Standalone
  /\ ValueRead("readU4", U4Bytes, ReadU4(buf, Fresh))

ReadU2Call ==
  /\ Standalone
  /\ ValueRead("readU2", U2Bytes, ReadU2(buf, Fresh))

ReadBytesCall(n) ==
  /\ Standalone
  /\ ValueRead("readBytes", n, ReadBytes(buf, Fresh, n))

ReadStringCall(n) ==
  /\ Standalone
  /\ ValueRead("readString", n, ReadString(buf, Fresh, n))

ReaderNext ==
  \/ \E p \in SeekArgs : SeekCall(p)
  \/ ReadU4Call
  \/ ReadU2Call
  \/ \E n \in ReadArgs : ReadBytesCall(n)
  \/ \E n \in ReadArgs : ReadStringCall(n)

ReaderSpec == ReaderInit /\ [][ReaderNext]_vars

\* What the claim says of a seek and of a read of n bytes.
SeekAsSaid(p, from, to, err) ==
  IF p >= 0 /\ p <= Len(buf) THEN err = "" /\ to = p
  ELSE IF p < 0 /\ Len(buf) + p >= 0 THEN err = "" /\ to = Len(buf) + p
  ELSE err # "" /\ to = from

Slice(from, n) == SubSeq(buf, from + 1, from + n)

RECURSIVE Value(_)
Value(bytes) == IF bytes = <<>> THEN 0 ELSE Head(bytes) + 256 * Value(Tail(bytes))

Returned(op, bytes) ==
  IF op \in {"readU4", "readU2"} THEN <<Value(bytes)>>
  ELSE IF op = "readString" THEN <<Utf8Decode(bytes)>>
  ELSE <<bytes>>

ReadAsSaid(op, n, from, to, err, v, lo, hi) ==
  /\ err = "" => /\ from + n <= Len(buf)
                 /\ to = from + n
                 /\ n > 0 => lo = from /\ hi = from + n
                 /\ v = Returned(op, Slice(from, n))
  /\ (n >= 0 /\ from + n <= Len(buf)) => err = ""
  /\ err # "" => to = from /\ v = <<>>

\* C12: after any sequence of seek, readU4, readU2, readBytes and readString
\* calls the position lies in [0, buffer length]; seek(p) sets it to p when
\* 0 <= p <= length, to length + p when p < 0 and length + p >= 0, and fails
\* otherwise; a read of n bytes succeeds only when position + n <= length
\* (and always then, for n >= 0), covers exactly [position, position + n),
\* returns the value of those bytes and advances the position by n; a failing
\* seek or read leaves the position where it was and returns no data.
C12_ReaderStaysInside ==
  /\ pos >= 0 /\ pos <= Len(buf)
  /\ readerCall.op = "seek" =>
       SeekAsSaid(readerCall.arg, readerCall.before, pos, readerCall.err)
  /\ readerCall.op \in {"readU4", "readU2", "readBytes", "readString"} =>
       ReadAsSaid(readerCall.op, readerCall.arg, readerCall.before, pos, readerCall.err,
                  readerCall.v, readerCall.lo, readerCall.hi)

\* A readU4 two bytes before the end of a full buffer, reached by a seek from
\* the end or by reads: it fails and the position stays.
C12_Witness ==
  /\ Len(buf) = MaxLen
  /\ readerCall.op = "readU4"
  /\ readerCall.before = Len(buf) - 2
  /\ readerCall.err = "read"
  /\ pos = Len(buf) - 2

----------------------------------------------------------------------------
(* fd_write followed consumer call by consumer call.  wasip1 takes any     *)
(* consumers through ctrl.setup, and whether the call returns depends on   *)
(* what they accept, so here the loop is not folded into one step: one     *)
(* step is one round of the for loop up to the while loop, or one round of *)
(* the while loop.  parse's own consumers are the policy "all".            *)

\* What a consumer may return for the slice b it is offered.
Policies == {"all", "some", "none"}
Accepts(policy, b) ==
  IF policy = "all" THEN {Len(b)}
  ELSE IF policy = "some" THEN 1..Len(b)
  ELSE {0}

\* b.slice(n)
SliceFrom(b, n) == SubSeq(b, n + 1, Len(b))

\* The consumer a mutated switch would pick.
ConsumerSwapped(fd) == IF fd = 1 THEN "stderr" ELSE "stdout"

\* switch (fd) { case 1: w = stdout; case 2: w = stderr }
ConsumerOf(fd) == IF fd = 1 THEN "stdout" ELSE "stderr"

CountOffer(k) == Min(k + 1, MaxOffers)

WriteIdle(policy) ==
  [pc |-> "idle", policy |-> policy, fd |-> 0, ptr |-> 0, len |-> 0, out |-> 0,
   i |-> 0, b |-> <<>>, written |-> 0, offers |-> 0, vec |-> <<>>, taken |-> 0,
   stdout |-> <<>>, stderr |-> <<>>, ret |-> -1, err |-> "", mem0 |-> ZeroMemory]

WriteInit ==
  /\ ZipIdle
  /\ memory \in BridgeMemories
  /\ memorySet = TRUE
  /\ bound = Setup(NotSet, 1)
  /\ input = [i \in Invs |-> <<>>]
  /\ output = [i \in Invs |-> <<>>]
  /\ diag = [i \in Invs |-> <<>>]
  /\ running = 1
  /\ ncalls = 0
  /\ hostCalls = 0
  /\ wr \in {WriteIdle(policy) : policy \in Policies}
  /\ lastCall = NoCall
  /\ delivered = [i \in Invs |-> <<>>]
  /\ wrote = [i \in Invs |-> <<>>]
  /\ ipc = OnlyFirst("running", "idle")
  /\ ierr = [i \in Invs |-> ""]
  /\ result = [i \in Invs |-> <<>>]
  /\ mod = "resolved"
  /\ cache = "resolved"
  /\ cacheValue = 1
  /\ loading = 0
  /\ instantiating = 0
  /\ compiles = 1
  /\ instantiations = 1
  /\ instanceOf = OnlyFirst(1, 0)
  /\ doneBefore = [i \in Invs |-> {}]
  /\ exitCode = [i \in Invs |-> 0 - 1]
  /\ stream = [i \in Invs |-> NoStream]

WriteFrame ==
  UNCHANGED <<zipVars, memorySet, bound, input, output, diag, running, ncalls, hostCalls,
              lastCall, delivered, wrote, decodeVars>>

\* The module calls fd_write: assertsItIsMemory, the switch on fd.
WriteEnter(fd, ptr, len, out) ==
  /\ wr.pc = "idle"
  /\ wr' = IF fd \in {1, 2}
           THEN [wr EXCEPT !.pc = "for", !.fd = fd, !.ptr = ptr, !.len = len,
                           !.out = out, !.mem0 = memory]
           ELSE [wr EXCEPT !.pc = "returned", !.fd = fd, !.ptr = ptr, !.len = len,
                           !.out = out, !.mem0 = memory, !.ret = Badf]
  /\ UNCHANGED memory
  /\ WriteFrame

\* The for loop is over: view.setUint32(writtenptr, written, true); return 0
WriteStore ==
  /\ wr.pc = "for"
  /\ wr.i >= wr.len
  /\ IF InMemory(wr.out, 4)
     THEN /\ memory' = SetUint32(memory, wr.out, wr.written)
          /\ wr' = [wr EXCEPT !.pc = "returned", !.ret = 0]
     ELSE /\ wr' = [wr EXCEPT !.pc = "threw", !.err = "RangeError"]
          /\ UNCHANGED memory
  /\ WriteFrame

\* The view of vector i is made, or a RangeError is thrown.
WriteView(p, len) ==
  IF InMemory(p, len)
  THEN [wr EXCEPT !.i = @ + 1, !.b = MemBytes(memory, p, len),
                  !.vec = MemBytes(memory, p, len), !.taken = 0,
                  !.pc = IF len > 0 THEN "while" ELSE "for"]
  ELSE [wr EXCEPT !.pc = "threw", !.err = "RangeError"]

\* A round of the for loop up to its while loop.
WriteVectorStep ==
  /\ wr.pc = "for"
  /\ wr.i < wr.len
  /\ wr' = IF InMemory(wr.ptr + wr.i * 8, 8)
           THEN WriteView(GetUint32(memory, wr.ptr + wr.i * 8),
                          GetUint32(memory, wr.ptr + wr.i * 8 + 4))
           ELSE [wr EXCEPT !.pc = "threw", !.err = "RangeError"]
  /\ UNCHANGED memory
  /\ WriteFrame

\* A loop that would call the consumer and go on with the same slice.
TakingNothing(w, n) == [wr EXCEPT !.offers = CountOffer(@)]

\* The consumer w takes the first n bytes it is offered.
Taking(w, n) ==
  [wr EXCEPT ![w] = @ \o SubSeq(wr.b, 1, n),
             !.written = @ + n,
             !.taken = @ + n,
             !.offers = CountOffer(@),
             !.b = SliceFrom(wr.b, n),
             !.pc = IF SliceFrom(wr.b, n) = <<>> THEN "for" ELSE "while"]

\* A round of the while loop: n = w(b); written += n; b = b.slice(n)
ConsumerCall(n) ==
  /\ wr.pc = "while"
  /\ n \in Accepts(wr.policy, wr.b)
  /\ wr' = Taking(ConsumerOf(wr.fd), n)
  /\ UNCHANGED memory
  /\ WriteFrame

WriteNext ==
  \/ \E c \in BridgeCalls : WriteEnter(c[1], c[2], c[3], c[4])
  \/ WriteVectorStep
  \/ \E n \in 0..MemSize : ConsumerCall(n)
  \/ WriteStore

WriteSpec == WriteInit /\ [][WriteNext]_vars

\* The engine runs the synchronous call on: a step that can be taken is taken.
WriteFairSpec == WriteSpec /\ WF_vars(WriteNext)

\* The sum of the declared lengths of the first n vectors of a table.
RECURSIVE Declared(_, _, _)
Declared(mem, ptr, n) ==
  IF n = 0 THEN 0
  ELSE Declared(mem, ptr, n - 1) + GetUint32(mem, ptr + (n - 1) * 8 + 4)

\* The bytes the consumer of descriptor fd has been given, and the other's.
GivenTo(fd) == IF fd = 1 THEN wr.stdout ELSE wr.stderr
GivenToOther(fd) == IF fd = 1 THEN wr.stderr ELSE wr.stdout

Writing == wr.pc \in {"for", "while", "returned", "threw"} /\ wr.fd \in {1, 2}

\* C13: a sequential-write on descriptor 1 or 2 hands the consumer of that
\* descriptor the bytes of the requested vectors, vector by vector, each byte
\* once and in order: what it offers is always the part of the current
\* vector not yet accepted, and what the consumer has accepted so far is the
\* vectors already done followed by the accepted part of the current one.
\* When it returns it returns 0, the count it reports is the sum of the
\* declared lengths of all requested vectors, and the other consumer has
\* been given nothing.
C13_WriteDeliversEveryByte ==
  Writing =>
    /\ GivenToOther(wr.fd) = <<>>
    /\ wr.pc = "while" =>
         /\ wr.b # <<>>
         /\ wr.b = SubSeq(wr.vec, wr.taken + 1, Len(wr.vec))
         /\ GivenTo(wr.fd) = Gather(wr.mem0, wr.ptr, wr.i - 1) \o SubSeq(wr.vec, 1, wr.taken)
    /\ wr.pc = "for" => GivenTo(wr.fd) = Gather(wr.mem0, wr.ptr, wr.i)
    /\ wr.pc = "returned" =>
         /\ wr.ret = 0
         /\ wr.i = Max(wr.len, 0)
         /\ GivenTo(wr.fd) = Gather(wr.mem0, wr.ptr, wr.len)
         /\ wr.written = Declared(wr.mem0, wr.ptr, wr.len)
         /\ GetUint32(memory, wr.out) = wr.written

\* Two overlapping vectors of 4 and 3 bytes written to descriptor 1 through a
\* consumer that took them in four pieces.
C13_Witness ==
  /\ wr.pc = "returned"
  /\ wr.fd = 1
  /\ wr.policy = "some"
  /\ wr.len = 2
  /\ wr.written = 4 + 3
  /\ wr.offers = 4
  /\ wr.stdout = <<51, 52, 53, 54, 53, 54, 55>>

----------------------------------------------------------------------------
(* Successive reads of one run.                                            *)

ResultWord == {a \in Addrs : a >= lastCall.out /\ a < lastCall.out + 4}

ReadReturned ==
  /\ lastCall.fn = "fd_read" /\ lastCall.fd = 0 /\ lastCall.len >= 1
  /\ lastCall.err = ""

\* C14: within one run, a sequential-read on descriptor 0 with at least one
\* vector that returns has called the provider exactly once and reports
\* min(first vector length, bytes remaining); the bytes it placed in the
\* first vector are the next bytes of the input (where the result word does
\* not lie over them) and the input left is what followed them, so the reads
\* of a run deliver, piece after piece, a prefix of the entry's bytes; a read
\* that finds the input exhausted reports 0.  A read that throws has called
\* the provider at most once.
C14_ReadsDeliverPrefix ==
  /\ delivered[1] \o input[1] \in BridgeInputs
  /\ lastCall.fn = "fd_read" => lastCall.calls.stdin <= 1
  /\ ReadReturned =>
       /\ lastCall.calls.stdin = 1
       /\ lastCall.ret = 0
       /\ lastCall.total = Min(FirstLen, Len(Before.input[1]))
       /\ GetUint32(memory, lastCall.out) = lastCall.total
       /\ \A k \in 1..lastCall.total :
            (FirstBuf + k - 1) \notin ResultWord =>
              memory[FirstBuf + k - 1] = Before.input[1][k]
       /\ input[1] = SubSeq(Before.input[1], lastCall.total + 1, Len(Before.input[1]))
       /\ Before.input[1] = <<>> => lastCall.total = 0

\* "345" read through a vector of two bytes: "34", then "5", then nothing.
C14_Witness ==
  /\ ReadReturned
  /\ ncalls = 3
  /\ FirstLen = 2
  /\ delivered[1] = InputOf(2)
  /\ Before.input[1] = <<>>
  /\ lastCall.total = 0
  /\ MemBytes(memory, DataAt, 2) = <<53, 52>>

----------------------------------------------------------------------------
(* What a decode returns.                                                  *)

NoResult == <<>>

\* C15: a decode invocation has a result only if the entry point returned 0
\* to it, and the result is then the document decoded from the bytes the
\* module wrote to descriptor 1 during that invocation, in the order of the
\* writes; when the entry point returns a nonzero status the invocation fails
\* with a ModuleFault and has no result, whatever was written.
C15_ResultOnlyOnZero ==
  \A i \in Invs :
    /\ ipc[i] = "done" =>
         /\ exitCode[i] = 0
         /\ result[i] = JsonParse(Utf8Decode(wrote[i]))
    /\ ipc[i] # "done" => result[i] = NoResult
    /\ exitCode[i] \notin {0 - 1, 0} =>
         /\ ipc[i] = "failed"
         /\ ierr[i] = "ModuleFault"
         /\ result[i] = NoResult

\* Invocation 1 wrote "34", read "12" and wrote "12": the result is 3412.
\* Invocation 2 wrote a document too, and its entry point returned 1.
C15_Witness ==
  /\ ipc[1] = "done"
  /\ result[1] = [type |-> "number", digits |-> <<3, 4, 1, 2>>]
  /\ exitCode[2] = 1
  /\ wrote[2] # <<>>
  /\ JsonOk(wrote[2])
  /\ ipc[2] = "failed"

\* C16: the outcome of a decode invocation does not depend on whether
\* forwarding diagnostics to the log sink fails; with a working sink no
\* decode ends in the sink's failure, so none ever does.
C16_AsStated == \A i \in Invs : ierr[i] # "LogSinkFault"

----------------------------------------------------------------------------
(* unjar: the catalog filtered to class files, each with a deferred decode. *)

ClassSuffix == <<46, 99, 108, 97, 115, 115>>     \* ".class"

\* A filter that would let every entry pass.
IsClassAlways(m) == TRUE

\* entry.name.endsWith(".class")
IsClass(m) ==
  /\ Len(m) >= Len(ClassSuffix)
  /\ SubSeq(m, Len(m) - Len(ClassSuffix) + 1, Len(m)) = ClassSuffix

\* entry.name.slice(0, -".class".length)
Logical(m) == SubSeq(m, 1, Len(m) - Len(ClassSuffix))

\* The result of unjar for a catalog: logical name -> the entry it closes over.
Exposed(recs) == {Logical(m) : m \in {x \in DOMAIN recs : IsClass(x)}}
Unjar(recs) ==
  [n \in Exposed(recs) |-> CHOOSE m \in DOMAIN recs : IsClass(m) /\ Logical(m) = n]

\* unjar(content): await unzip(content), then the loop over the catalog.  The
\* result is a function of the catalog, which the model keeps.
UnjarCall ==
  /\ zst = "init"
  /\ UnzipReturns(Unzip(buf))

StreamOf(n, m, r) ==
  [logical |-> n, name |-> m, err |-> r.c.err, yields |-> r.yields, ok |-> r.streamOk,
   open |-> TRUE]

\* The operation started: entry.open() returned r or threw, and parse ran up
\* to its first await.
JarParseStarts(i, n, m, r) ==
  /\ OpenEffects(m, r, OpenOutcome(m, r))
  /\ stream' = [stream EXCEPT ![i] = StreamOf(n, m, r)]
  /\ ipc' = [ipc EXCEPT ![i] = IF r.c.err = "" THEN "bytes" ELSE "failed"]
  /\ ierr' = [ierr EXCEPT ![i] = r.c.err]
  /\ doneBefore' = [doneBefore EXCEPT ![i] = {j \in Invs : Ended(j)}]
  /\ UNCHANGED <<bridgeVars, result, mod, cache, cacheValue, loading, instantiating,
                 compiles, instantiations, instanceOf, exitCode>>

\* Calls of the exposed operations followed in the archive runs.
JarCalls == Min(MaxInv, 2)

\* result[n].parse(), the i-th call of an operation.
JarParse(i, n) ==
  /\ i <= JarCalls
  /\ running = 0
  /\ zst = "ok"
  /\ ipc[i] = "idle"
  /\ n \in Exposed(records)
  /\ \E r \in {OpenEntry(buf, pos, span, records[Unjar(records)[n]])} :
       JarParseStarts(i, n, Unjar(records)[n], r)

\* await new Response(data).bytes() settles for a jar entry's stream.
JarBytesSettle(i) ==
  /\ stream[i].open
  /\ IF stream[i].ok THEN BytesArrive(i, stream[i].yields) ELSE BytesFail(i)

JarEntries == Min(MaxEntries, 2)

\* Well-formed archives of up to JarEntries entries.
JarFixtures ==
  {fx \in Fixtures : fx.defect = "none" /\ fx.variant = 0 /\ Len(fx.dir) <= JarEntries}

JarInit ==
  /\ fixture \in JarFixtures
  /\ buf = Build(fixture)
  /\ pos = 0
  /\ span = <<Len(buf), 0>>
  /\ zst = "init"
  /\ zerr = ""
  /\ records = EmptyRecords
  /\ lastOpen = NoOpen
  /\ firstOpen = [n \in {} |-> NoOpen]
  /\ opened = {}
  /\ readerCall = NoReaderCall
  /\ BridgeIdle
  /\ DecodeIdle

JarNext ==
  \/ UnjarCall
  \/ \E i \in Invs : \E n \in Exposed(records) : JarParse(i, n)
  \/ \E i \in Invs : JarBytesSettle(i)
  \/ \E ok \in BOOLEAN : CompileDone(ok)
  \/ LoaderResumes
  \/ \E o \in InstantiateOutcomes : InstantiateDone(o)
  \/ \E i \in Invs : InstanceReady(i)
  \/ \E i \in Invs : InstanceRejected(i)
  \/ HostRead(0, TableAt, 1, ResultAt)
  \/ HostWrite(1, TableAt, 1, ResultAt)
  \/ \E n \in {0, 1} : EntryReturns(n)
  \/ \E i \in Invs : TextResolved(i)

JarSpec == JarInit /\ [][JarNext]_vars

\* Names that could be exposed: every prefix of a catalog name.
Candidates == {SubSeq(m, 1, k) : <<m, k>> \in {x \in (DOMAIN records) \X (0..8) : x[2] <= Len(x[1])}}

Called(i) == stream[i].open
Ran(i) == instanceOf[i] # 0

\* The call got as far as having the entry's bytes in parse's input.
Buffered(i) == Called(i) /\ stream[i].err = "" /\ stream[i].ok /\ ipc[i] # "bytes"

\* Failures of a call before the entry point is reached.
BeforeRun(i) == stream[i].err # "" \/ ierr[i] \in {"StreamError", "LoadError"}

Deferred ==
  (\A i \in Invs : ~Called(i)) =>
    /\ opened = {}
    /\ ~lastOpen.called
    /\ hostCalls = 0
    /\ compiles = 0 /\ instantiations = 0
    /\ \A i \in Invs : ~Ran(i) /\ ipc[i] = "idle"

OneOpenOneRun ==
  /\ opened = {<<stream[i].name, stream[i].err>> : i \in {j \in Invs : Called(j)}}
  /\ \A i \in Invs :
       /\ Called(i) => stream[i].name = stream[i].logical \o ClassSuffix
       /\ Ran(i) => Called(i)
       /\ Buffered(i) =>
            delivered[i] \o input[i] = EntryData(LastIndex(fixture.dir, stream[i].name))
       /\ Ran(i) => Buffered(i) /\ ~BeforeRun(i)
       /\ (Ended(i) /\ ~BeforeRun(i)) => Ran(i)

\* The entry point is entered for a call only if it was not entered for that
\* call before.
RunsOnce == \A i \in Invs : (running' = i /\ running # i) => ~Ran(i) /\ ipc[i] = "instance"

----------------------------------------------------------------------------
(* Overlapping decodes.                                                    *)

\* i was started while j was in flight and the other way round.
Overlapping(i, j) == i # j /\ i \notin doneBefore[j] /\ j \notin doneBefore[i]

\* While the entry point runs, the provider and the consumers are those of
\* the invocation that started the run.
BoundToRunning ==
  running # 0 => /\ ipc[running] = "running"
                 /\ bound = [stdin |-> running, stdout |-> running, stderr |-> running]

\* What an invocation's reads delivered is a prefix of its own input, its
\* output closure holds the bytes written to descriptor 1 during its run, and
\* its result is their text.
OwnOutputOnly(i) ==
  /\ IsPrefix(delivered[i], InputOf(i))
  /\ ipc[i] \in {"text", "done"} => Flatten(output[i]) = wrote[i]
  /\ ipc[i] = "done" => result[i] = JsonParse(Utf8Decode(wrote[i]))

\* From setup to the return of the entry point no other invocation moves.
RunIsOneStep ==
  /\ (running # 0 /\ running' # running) => running' = 0
  /\ (running = 0 /\ running' # 0) => bound' = Setup(bound, running')
  /\ running # 0 =>
       \A j \in Invs \ {running} :
         /\ ipc'[j] = ipc[j]
         /\ input'[j] = input[j] /\ output'[j] = output[j]
         /\ delivered'[j] = delivered[j] /\ wrote'[j] = wrote[j]
         /\ result'[j] = result[j]

\* C18: also when decode invocations overlap, binding the three callbacks and
\* running the entry point is one step of the program that no other
\* invocation interleaves with; during every run the bound provider and
\* consumers are those of the invocation that started it, and the result of
\* every invocation holds only the bytes written during its own run.
C18_OverlappingRunsKeepApart ==
  /\ [](BoundToRunning /\ \A i \in Invs : OwnOutputOnly(i))
  /\ [][RunIsOneStep]_vars

\* Two decodes, the second started while the first awaited its bytes and the
\* first resumed while the second awaited the instance; each read its own
\* input and got its own digits back.
C18_Witness ==
  /\ Overlapping(1, 2)
  /\ ipc[1] = "done" /\ ipc[2] = "done"
  /\ delivered[1] = InputOf(1)
  /\ delivered[2] = SubSeq(InputOf(2), 1, 2)
  /\ result[1] = [type |-> "number", digits |-> <<1, 2>>]
  /\ result[2] = [type |-> "number", digits |-> <<3, 4>>]

----------------------------------------------------------------------------
(* A failed first load.                                                    *)

LoadFailed == cache = "rejected"

\* i was started after an invocation had failed with the load's failure.
AfterLoadFailure(i) == \E j \in doneBefore[i] : ierr[j] = "LoadError"

\* Nothing is compiled or instantiated after the load has failed, and the
\* failure stays in the cache.
NoRetry ==
  LoadFailed => /\ cache' = cache /\ mod' = mod
                /\ compiles' = compiles /\ instantiations' = instantiations
                /\ loading' = loading /\ instantiating' = instantiating

NoDecodeSucceeds ==
  LoadFailed =>
    /\ compiles = 1 /\ instantiations <= 1
    /\ \A i \in Invs :
         /\ ~Ran(i) /\ ipc[i] \notin {"running", "text", "done"} /\ result[i] = NoResult
         /\ Ended(i) => ierr[i] \in {"LoadError", "StreamError"}

\* C19 as stated: every decode started after the load failed fails with the
\* load's failure.
C19_AsStated ==
  \A i \in Invs : (AfterLoadFailure(i) /\ Ended(i)) => ierr[i] = "LoadError"

\* C19: a failure of the first load (compilation, instantiation, or the check
\* of the exports) stays in the cache: nothing is compiled or instantiated
\* again, no decode ever runs the entry point or succeeds, and every decode
\* that gets as far as getInstance fails with the load's failure (a decode
\* whose input cannot be buffered fails before that, with its stream's
\* error).
C19_FailedLoadIsKept ==
  /\ []NoDecodeSucceeds
  /\ [][NoRetry]_vars

\* The module compiled but its instantiation failed; the first decode failed
\* with that, and so did a second one started afterwards.
C19_Witness ==
  /\ LoadFailed
  /\ mod = "resolved"
  /\ compiles = 1 /\ instantiations = 1
  /\ ierr[1] = "LoadError"
  /\ AfterLoadFailure(2) /\ 1 \in doneBefore[2]
  /\ ierr[2] = "LoadError"

----------------------------------------------------------------------------
(* Termination of fd_write.                                                *)

WriteOver == wr.pc \in {"returned", "threw"}

\* The bound consumer accepts at least one byte of every non-empty slice.
Accepting == wr.policy \in {"all", "some"}

\* The consumer calls so far are at most the bytes declared by the vectors
\* the for loop has got to, every one of them took a byte, and at the return
\* they are at most the bytes declared by the whole table.
CallsWithinDeclared ==
  (Accepting /\ Writing) =>
    /\ wr.offers <= wr.written
    /\ wr.written <= Declared(wr.mem0, wr.ptr, wr.i)
    /\ wr.pc = "returned" => wr.offers <= Declared(wr.mem0, wr.ptr, wr.len)

\* With a consumer that accepts nothing the while loop is never left.
StuckOnNothing ==
  (wr.policy = "none" /\ wr.pc = "while") =>
    /\ wr.b # <<>>
    /\ wr'.pc = "while" /\ wr'.b = wr.b /\ wr'.written = wr.written

\* C20: a sequential-write on descriptor 1 or 2 whose bound consumer accepts
\* at least one byte of every non-empty slice it is offered comes to an end
\* (it returns, or throws a RangeError for a vector outside memory), after at
\* most as many consumer calls as the sum of the declared lengths of its
\* vectors; with a consumer that accepts 0 bytes of a non-empty slice the
\* call stays in its while loop forever.
C20_WriteTerminates ==
  /\ [](Accepting => <>WriteOver)
  /\ []CallsWithinDeclared
  /\ [][StuckOnNothing]_vars

\* Two vectors of 4 and 3 bytes written to descriptor 2 through a consumer
\* that accepted one byte per call: seven calls, the most there can be.
C20_Witness ==
  /\ wr.pc = "returned"
  /\ wr.fd = 2
  /\ wr.policy = "some"
  /\ wr.len = 2
  /\ Declared(wr.mem0, wr.ptr, wr.len) = 4 + 3
  /\ wr.offers = 4 + 3
  /\ Len(wr.stderr) = 4 + 3

====
